---- MODULE Spec2Model ----
(***************************************************************************)
(* State-machine model of sasutils' sas_devices command                    *)
(* (src/sasutils/cli/sas_devices.py): SASDevicesCLI.print_end_devices and  *)
(* the helpers it calls.                                                   *)
(*                                                                         *)
(* A run has three phases, each a loop of the source:                      *)
(*   collect  (lines 110-121)  one step per sysfs node                     *)
(*   cluster  (lines 127-146)  one step per (lu, sas_ed_list) of devmap    *)
(*   report   (lines 152-198)  one step per enclosure group, then          *)
(*            (lines 200-203)  one step printing the orphan devices        *)
(*                                                                         *)
(* A SASEndDevice object is represented by its discovery index k into      *)
(* `nodes`; nodes[k] holds everything the code reads from that object.     *)
(***************************************************************************)
EXTENDS Integers, Sequences, FiniteSets, TLC

\* ------------------------------------------------------------------ bounds

\* Largest number of sas_end_device nodes the sysfs class directory holds.
MaxNodes == 4

\* Enclosures a block device's array_device can point to.
Enclosures == {"E1", "E2"}

\* blk.array_device is None
None == "None"
\* scsi_device.attrs.vpd_pg83 is missing: the access raises AttributeError
NoAttr == "NoAttr"
\* vpd_get_page83_lu yields no identifier for the block device
Unavailable == "Unavailable"

\* Block sizes are counted in units of 10^8 bytes (TLC integers are 32 bit).
\* 1e12 bytes, the TB/GB threshold of _get_dev_attrs, is 10^4 units.
TeraBytes == 10000

\* ----------------------------------------------------------------- helpers

\* floor(log2(a / b)) for a >= b > 0: the binary exponent of the double a / b.
RECURSIVE Log2Floor(_, _)
Log2Floor(a, b) == IF a < 2 * b THEN 0 ELSE 1 + Log2Floor(a, 2 * b)

\* 2^k mod 5
Pow2Mod5(k) == CASE k % 4 = 0 -> 1 [] k % 4 = 1 -> 2 [] k % 4 = 2 -> 4 [] OTHER -> 3

\* "%.1f" % (blk_sz / 1e12) in tenths, for blk_sz = sizeunits * 10^8 >= 1e12.
\* blk_sz / 1e12 is the double nearest to the quotient and "%.1f" rounds that
\* double's exact value, halves to even. Off a decimal half the double's error
\* is too small to matter. On a decimal half the quotient is n/20 with
\* n = 2q+1: it is a double when 5 divides n (x.25, x.75), and the half goes to
\* the even tenth; otherwise the double is n/20 rounded to 53 bits, that is
\* n * 2^(50-e) / 5 rounded to an integer, which lies below n/20 when the
\* remainder mod 5 is 1 or 2 and above it when the remainder is 3 or 4.
TenthsOfTB(sizeunits) ==
    LET q == (10 * sizeunits) \div TeraBytes
        rem == (10 * sizeunits) % TeraBytes
        n == 2 * q + 1
        r == ((n % 5) * Pow2Mod5(50 - Log2Floor(n, 20))) % 5
    IN  IF 2 * rem < TeraBytes THEN q
        ELSE IF 2 * rem > TeraBytes THEN q + 1
        ELSE IF n % 5 = 0 THEN (IF q % 2 = 0 THEN q ELSE q + 1)
        ELSE IF r <= 2 THEN q ELSE q + 1

SeqsUpTo(S, n) == UNION {[1..k -> S] : k \in 0..n}

\* All orders in which the keys S can be listed.
Orderings(S) ==
    {p \in [1..Cardinality(S) -> S] : \A a, b \in 1..Cardinality(S) : a # b => p[a] # p[b]}

Range(s) == {s[k] : k \in 1..Len(s)}

\* Number of positions of s holding x.
Count(s, x) == Cardinality({k \in 1..Len(s) : s[k] = x})

Digit(n) ==
    CASE n = 0 -> "0" [] n = 1 -> "1" [] n = 2 -> "2" [] n = 3 -> "3" [] n = 4 -> "4"
      [] n = 5 -> "5" [] n = 6 -> "6" [] n = 7 -> "7" [] n = 8 -> "8" [] OTHER -> "9"

\* "%d" % n, as the sequence of its characters (n < 100 within the bounds).
FormatInt(n) == IF n < 10 THEN <<Digit(n)>> ELSE <<Digit(n \div 10), Digit(n % 10)>>

\* ------------------------------------------------------------------- input

\* One sysfs node of class sas_end_device, with what the code reads from it.
Node(block, pg83, sgvpd, enc, vendor, model, rev, bay, size) ==
    [block |-> block, pg83_lu |-> pg83, sg_lu |-> sgvpd, enclosure |-> enc,
     vendor |-> vendor, model |-> model, rev |-> rev, bay |-> bay, sizeunits |-> size]

\* The disks of the model, by logical-unit identifier: model, bay and size.
\* 10000 and 10400 units both print as 1.0TB, 5000 units as 500.0GB, and 20500
\* units (2.05e12 bytes, a decimal half whose double lies below it) as 2.0TB.
Catalog ==
    [lu1 |-> [model |-> "D1", bay |-> 3, sizeunits |-> 10000],
     lu2 |-> [model |-> "D1", bay |-> 1, sizeunits |-> 10000],
     lu3 |-> [model |-> "D1", bay |-> 2, sizeunits |-> 10400],
     lu4 |-> [model |-> "D1", bay |-> 4, sizeunits |-> 20500],
     lu5 |-> [model |-> "D2", bay |-> 5, sizeunits |-> 5000]]

\* A path to disk lu through enclosure enc, with a decodable page 0x83.
Path(lu, enc) ==
    Node(TRUE, lu, lu, enc, "ACME", Catalog[lu].model, "1.0", Catalog[lu].bay,
         Catalog[lu].sizeunits)

\* Inputs for enclosure clustering: three disks, each seen through either
\* enclosure or through none.
ClusterNodes == {Path(lu, enc) : lu \in {"lu1", "lu2", "lu3"}, enc \in Enclosures \cup {None}}

\* Inputs for profile folding: the five disks behind one enclosure.
FoldNodes == {Path(lu, "E1") : lu \in DOMAIN Catalog}

\* Inputs for path collection: a device without block device, and block devices
\* with or without a page 0x83 attribute, whose sg_vpd lookup succeeds or fails.
CollectNodes ==
    {Node(FALSE, "lu1", "lu1", "E1", "ACME", "D1", "1.0", 1, 10000)}
    \cup {Node(TRUE, pg, sg, "E1", "ACME", "D1", "1.0", 1, 10000) :
             pg \in {"lu1", NoAttr}, sg \in {"lu1", "lu2", Unavailable}}

\* ------------------------------------------------------------------- state

VARIABLES
    nodes,      \* the sysfs nodes of class sas_end_device, in listing order
    verbose,    \* self.args.verbose
    pc,         \* phase: collect, cluster, report, done, aborted
    err,        \* the exception that aborted the run, or None
    i,          \* next node of the collection loop
    devmap,     \* LU -> list of SASEndDevice
    items,      \* devmap.items() as listed by the dict, keys only
    j,          \* next entry of items in the clustering loop
    encgroups,  \* list of set of enclosure
    orphans,    \* list of (lu, sas_ed_list)
    warnings,   \* devices named by a "no enclosure set" warning, in print order
    summary,    \* the "Found %d enclosure groups/orphan devices" lines
    g,          \* next group of the report loop
    reports,    \* what was printed for each enclosure group
    orphanlines \* what was printed under "Orphan devices:"

vars == <<nodes, verbose, pc, err, i, devmap, items, j, encgroups, orphans,
          warnings, summary, g, reports, orphanlines>>

\* ------------------------------------------------------- identifier lookup

\* vpd_decode_pg83_lu(bytes(scsi_device.attrs.vpd_pg83)): the LU designator of
\* the device's page 0x83 (the attribute access raises AttributeError if NoAttr).
vpd_decode_pg83_lu(node) == node.pg83_lu

\* vpd_get_page83_lu(scsi_device.block.name): the identifier sg_vpd reports for
\* the block device; it fails when the device yields none.
vpd_get_page83_lu(node) == node.sg_lu

\* try: lu = vpd_decode_pg83_lu(pg83)  except AttributeError: lu = vpd_get_page83_lu(name)
ResolveLU(node) ==
    IF node.pg83_lu # NoAttr THEN vpd_decode_pg83_lu(node) ELSE vpd_get_page83_lu(node)

\* Variant of devmap_append: devmap[lu] = [sas_end_device], which forgets the
\* paths collected before.
devmap_append_assign(dm, lu, dev) ==
    IF lu \in DOMAIN dm THEN [dm EXCEPT ![lu] = <<dev>>] ELSE dm @@ (lu :> <<dev>>)

\* devmap.setdefault(lu, []).append(sas_end_device)
devmap_append(dm, lu, dev) ==
    IF lu \in DOMAIN dm THEN [dm EXCEPT ![lu] = Append(@, dev)] ELSE dm @@ (lu :> <<dev>>)

\* -------------------------------------------------------------- clustering

\* The devices of sas_ed_list whose block device has array_device None, in list
\* order: one "Warning: no enclosure set for ..." line is printed for each.
NoEnclosureWarnings(devlist) == SelectSeq(devlist, LAMBDA d : nodes[d].enclosure = None)

\* Variant of EnclosuresOf: only the first path of the list is looked at.
EnclosuresOf_first_path(devlist) == {nodes[devlist[1]].enclosure} \ {None}

\* set(blk.array_device.enclosure for blk in blklist if blk.array_device is not None)
EnclosuresOf(devlist) ==
    {nodes[devlist[k]].enclosure : k \in {n \in 1..Len(devlist) : nodes[devlist[n]].enclosure # None}}

\* The scan of encgroups: the first set not disjoint from encs is updated with
\* encs and the scan stops; when no set matches, encs is appended as a new group.
MergeEncs(groups, encs) ==
    LET hits == {k \in 1..Len(groups) : groups[k] \cap encs # {}}
    IN  IF hits # {}
        THEN LET first == CHOOSE k \in hits : \A h \in hits : k <= h
             IN  [groups EXCEPT ![first] = @ \cup encs]
        ELSE Append(groups, encs)

\* ---------------------------------------------------------------- reporting

\* Variant of enclosure_finder: only the first path of the list is looked at.
enclosure_finder_first_path(encset, devlist) ==
    nodes[devlist[1]].enclosure # None /\ nodes[devlist[1]].enclosure \in encset

\* enclosure_finder((lu, sas_ed_list)) for the group encset
enclosure_finder(encset, devlist) ==
    \E k \in 1..Len(devlist) :
        nodes[devlist[k]].enclosure # None /\ nodes[devlist[k]].enclosure \in encset

\* list(ifilter(enclosure_finder, devmap.items())): the (lu, sas_ed_list) pairs
RECURSIVE FilterItems(_, _)
FilterItems(encset, keys) ==
    IF keys = <<>> THEN <<>>
    ELSE LET rest == FilterItems(encset, Tail(keys))
         IN  IF enclosure_finder(encset, devmap[Head(keys)])
             THEN <<(<<Head(keys), devmap[Head(keys)]>>)>> \o rest
             ELSE rest

\* max(len(devs) for lu, devs in encdevs), for a non-empty encdevs
MaxPaths(encdevs) ==
    CHOOSE m \in {Len(encdevs[k][2]) : k \in 1..Len(encdevs)} :
        \A k \in 1..Len(encdevs) : Len(encdevs[k][2]) <= m

\* "%.1fTB" % (blk_sz / 1e12) or "%.1fGB" % (blk_sz / 1e9): the number printed,
\* in tenths, and the unit.
blk_sz_info(sizeunits) ==
    IF sizeunits >= TeraBytes
    THEN [tenths |-> TenthsOfTB(sizeunits), unit |-> "TB"]
    ELSE [tenths |-> sizeunits, unit |-> "GB"]

_get_dev_attrs(dev) ==
    [vendor |-> nodes[dev].vendor, model |-> nodes[dev].model, rev |-> nodes[dev].rev,
     bay |-> nodes[dev].bay, blk_sz_info |-> blk_sz_info(nodes[dev].sizeunits)]

\* paths = "%d" % len(devlist), with "*" appended if maxpaths and fewer paths.
\* maxpaths = 0 stands for None, the default.
PathsColumn(npaths, maxpaths) ==
    IF maxpaths # 0 /\ npaths < maxpaths THEN FormatInt(npaths) \o <<"*">> ELSE FormatInt(npaths)

\* The line _print_lu_devlist prints, by column.
_print_lu_devlist(lu, devlist, maxpaths) ==
    LET info == _get_dev_attrs(devlist[1])
    IN  [bay |-> info.bay, lu |-> lu, blkdevs |-> devlist,
         paths |-> PathsColumn(Len(devlist), maxpaths),
         vendor |-> info.vendor, model |-> info.model, rev |-> info.rev,
         blk_sz_info |-> info.blk_sz_info]

\* sorted(encdevs, key=lambda o: int(o[1][0].sas_device.attrs.bay_identifier)):
\* a stable sort, here by insertion from the left.
BayKey(o) == nodes[o[2][1]].bay

RECURSIVE InsertByBay(_, _)
InsertByBay(o, sorted) ==
    IF sorted = <<>> THEN <<o>>
    ELSE IF BayKey(o) < BayKey(Head(sorted)) THEN <<o>> \o sorted
    ELSE <<Head(sorted)>> \o InsertByBay(o, Tail(sorted))

RECURSIVE SortedByBay(_)
SortedByBay(encdevs) ==
    IF encdevs = <<>> THEN <<>>
    ELSE InsertByBay(encdevs[Len(encdevs)], SortedByBay(SubSeq(encdevs, 1, Len(encdevs) - 1)))

\* devinfo of the first device plus paths, minus bay: the FoldedDict namedtuple.
FoldedKey(devlist) ==
    LET devinfo == _get_dev_attrs(devlist[1])
    IN  [vendor |-> devinfo.vendor, model |-> devinfo.model, rev |-> devinfo.rev,
         blk_sz_info |-> devinfo.blk_sz_info, paths |-> Len(devlist)]

\* Variant of folded_append: folded[folded_key] = [devlist], which forgets the
\* units folded under the key before.
folded_append_assign(folded, key, devlist) ==
    IF key \in DOMAIN folded THEN [folded EXCEPT ![key] = <<devlist>>]
    ELSE folded @@ (key :> <<devlist>>)

\* folded.setdefault(folded_key, []).append(devlist)
folded_append(folded, key, devlist) ==
    IF key \in DOMAIN folded THEN [folded EXCEPT ![key] = Append(@, devlist)]
    ELSE folded @@ (key :> <<devlist>>)

\* The loop over encdevs that fills folded.
RECURSIVE Fold(_, _)
Fold(folded, encdevs) ==
    IF encdevs = <<>> THEN folded
    ELSE Fold(folded_append(folded, FoldedKey(Head(encdevs)[2]), Head(encdevs)[2]),
              Tail(encdevs))

\* The line printed for one entry (t, v) of folded. pathstr carries the marker
\* but the line is built from infostr, which formats t.paths itself.
FoldedLine(t, v, maxpaths) ==
    LET pathstr == IF maxpaths # 0 /\ t.paths < maxpaths
                   THEN FormatInt(t.paths) \o <<"*">>
                   ELSE FormatInt(t.paths) \o <<" ">>
        infostr == [vendor |-> t.vendor, model |-> t.model, rev |-> t.rev,
                    paths |-> FormatInt(t.paths)]
    IN  [num |-> Len(v), vendor |-> infostr.vendor, model |-> infostr.model,
         rev |-> infostr.rev, paths |-> infostr.paths]

\* ------------------------------------------------------------------ actions

NoDict == <<>>

InitWith(inputs, modes) ==
    /\ nodes \in SeqsUpTo(inputs, MaxNodes)
    /\ verbose \in modes
    /\ pc = "collect"
    /\ err = None
    /\ i = 1
    /\ devmap = NoDict
    /\ items = <<>>
    /\ j = 1
    /\ encgroups = <<>>
    /\ orphans = <<>>
    /\ warnings = <<>>
    /\ summary = <<>>
    /\ g = 1
    /\ reports = <<>>
    /\ orphanlines = <<>>

Init == InitWith(ClusterNodes, {FALSE})

\* One iteration of "for node in sysfsnode" (lines 110-121). A device without
\* block device is passed over; an identifier lookup that fails raises out of
\* print_end_devices, and main() has no handler that resumes the loop.
CollectNode ==
    /\ pc = "collect"
    /\ i <= Len(nodes)
    /\ IF ~nodes[i].block
       THEN /\ i' = i + 1
            /\ UNCHANGED <<devmap, pc, err>>
       ELSE IF ResolveLU(nodes[i]) = Unavailable
       THEN /\ pc' = "aborted"
            /\ err' = "IdentifierUnavailable"
            /\ UNCHANGED <<devmap, i>>
       ELSE /\ devmap' = devmap_append(devmap, ResolveLU(nodes[i]), i)
            /\ i' = i + 1
            /\ UNCHANGED <<pc, err>>
    /\ UNCHANGED <<nodes, verbose, items, j, encgroups, orphans, warnings, summary, g,
                   reports, orphanlines>>

\* The collection loop is exhausted: encgroups = [], orphans = [], and the
\* dict lists its items. A Python 2 dict lists its keys in an order of its own,
\* the same for every listing of the unmodified dict.
StartClustering ==
    /\ pc = "collect"
    /\ i > Len(nodes)
    /\ items' \in Orderings(DOMAIN devmap)
    /\ j' = 1
    /\ encgroups' = <<>>
    /\ orphans' = <<>>
    /\ pc' = "cluster"
    /\ UNCHANGED <<nodes, verbose, err, i, devmap, warnings, summary, g, reports, orphanlines>>

\* One iteration of "for lu, sas_ed_list in devmap.items()" (lines 127-146).
ClusterLU ==
    /\ pc = "cluster"
    /\ j <= Len(items)
    /\ LET lu == items[j]
           sas_ed_list == devmap[lu]
           encs == EnclosuresOf(sas_ed_list)
       IN  /\ warnings' = warnings \o NoEnclosureWarnings(sas_ed_list)
           /\ IF encs = {}
              THEN /\ orphans' = Append(orphans, <<lu, sas_ed_list>>)
                   /\ encgroups' = encgroups
              ELSE /\ encgroups' = MergeEncs(encgroups, encs)
                   /\ orphans' = orphans
    /\ j' = j + 1
    /\ UNCHANGED <<nodes, verbose, pc, err, i, devmap, items, summary, g, reports, orphanlines>>

\* "Found %d enclosure groups" and, if any, "Found %d orphan devices".
PrintSummary ==
    /\ pc = "cluster"
    /\ j > Len(items)
    /\ summary' = IF orphans # <<>> THEN <<Len(encgroups), Len(orphans)>> ELSE <<Len(encgroups)>>
    /\ g' = 1
    /\ pc' = "report"
    /\ UNCHANGED <<nodes, verbose, err, i, devmap, items, j, encgroups, orphans, warnings,
                   reports, orphanlines>>

\* What one iteration of "for encset in encgroups" prints (lines 152-198).
GroupReport(encset) ==
    LET encdevs == FilterItems(encset, items)
        maxpaths == MaxPaths(encdevs)
        folded == Fold(NoDict, encdevs)
        sorted == SortedByBay(encdevs)
    IN  [encset |-> encset, encdevs |-> encdevs, maxpaths |-> maxpaths,
         lines |-> IF verbose
                   THEN [k \in 1..Len(sorted) |->
                            _print_lu_devlist(sorted[k][1], sorted[k][2], maxpaths)]
                   ELSE <<>>,
         folded |-> IF verbose THEN NoDict ELSE folded,
         flines |-> IF verbose THEN NoDict
                    ELSE [t \in DOMAIN folded |-> FoldedLine(t, folded[t], maxpaths)],
         total |-> Len(encdevs)]

\* max() of an empty sequence raises ValueError.
ReportGroup ==
    /\ pc = "report"
    /\ g <= Len(encgroups)
    /\ IF FilterItems(encgroups[g], items) = <<>>
       THEN /\ pc' = "aborted"
            /\ err' = "ValueError"
            /\ UNCHANGED <<g, reports>>
       ELSE /\ reports' = Append(reports, GroupReport(encgroups[g]))
            /\ g' = g + 1
            /\ UNCHANGED <<pc, err>>
    /\ UNCHANGED <<nodes, verbose, i, devmap, items, j, encgroups, orphans, warnings, summary,
                   orphanlines>>

\* "Orphan devices:" and one _print_lu_devlist line per orphan (lines 200-203).
ReportOrphans ==
    /\ pc = "report"
    /\ g > Len(encgroups)
    /\ orphanlines' = [k \in 1..Len(orphans) |->
                          _print_lu_devlist(orphans[k][1], orphans[k][2], 0)]
    /\ pc' = "done"
    /\ UNCHANGED <<nodes, verbose, err, i, devmap, items, j, encgroups, orphans, warnings,
                   summary, g, reports>>

Next ==
    \/ CollectNode
    \/ StartClustering
    \/ ClusterLU
    \/ PrintSummary
    \/ ReportGroup
    \/ ReportOrphans

Spec == Init /\ [][Next]_vars

\* The same program on disks of one enclosure that differ in model and size.
InitFold == InitWith(FoldNodes, BOOLEAN)

SpecFold == InitFold /\ [][Next]_vars

\* The same program on devices that differ in how their identifier resolves.
InitCollect == InitWith(CollectNodes, BOOLEAN)

SpecCollect == InitCollect /\ [][Next]_vars

\* ------------------------------------------------------------ properties

\* The logical units the clustering loop has processed so far, in order.
Processed == SubSeq(items, 1, j - 1)

\* Every path of the logical unit lacks an enclosure reference.
AllPathsLackEnclosure(lu) ==
    \A n \in 1..Len(devmap[lu]) : nodes[devmap[lu][n]].enclosure = None

\* The enclosures referenced by some collected path.
SeenEnclosures ==
    UNION {{nodes[d].enclosure : d \in Range(devmap[lu])} : lu \in DOMAIN devmap} \ {None}

\* The groups an enclosure belongs to.
GroupsOf(e) == {a \in 1..Len(encgroups) : e \in encgroups[a]}

\* C1: after clustering the enclosure sets of encgroups are pairwise disjoint
\* and every enclosure referenced by some path belongs to exactly one group.
C1_GroupsDisjoint ==
    pc \in {"report", "done"} =>
        /\ \A a, b \in 1..Len(encgroups) : a # b => encgroups[a] \cap encgroups[b] = {}
        /\ \A e \in SeenEnclosures : Cardinality(GroupsOf(e)) = 1

\* The group reports that list the logical unit, and its entries in orphans.
ReportsListing(lu) ==
    {r \in 1..Len(reports) : \E k \in 1..Len(reports[r].encdevs) : reports[r].encdevs[k][1] = lu}

OrphanEntries(lu) == {k \in 1..Len(orphans) : orphans[k][1] = lu}

\* C2: every logical unit of devmap is reported in exactly one place: under
\* exactly one enclosure group, or in orphans; never both and never neither.
C2_ReportedInOnePlace ==
    pc = "done" =>
        \A lu \in DOMAIN devmap :
            Cardinality(ReportsListing(lu)) + Cardinality(OrphanEntries(lu)) = 1

\* The identifier lookup of node k fails on both paths.
Unresolvable(k) == nodes[k].block /\ ResolveLU(nodes[k]) = Unavailable

\* C3: a record whose identifier resolution fails is skipped, alone, and the
\* run goes on with the remaining records: it is never aborted by the failure,
\* and the failing record is in no list of devmap.
C3_FailureSkipsOneRecord ==
    \A k \in 1..Len(nodes) :
        (k <= i /\ Unresolvable(k)) =>
            /\ ~(pc = "aborted" /\ err = "IdentifierUnavailable")
            /\ \A lu \in DOMAIN devmap : k \notin Range(devmap[lu])

\* The paths column carries the under-pathed marker.
HasMarker(paths) == paths[Len(paths)] = "*"

\* C4: in every group report, an entry (a logical unit in verbose mode, a
\* folded profile otherwise) carries the marker '*' in its paths column if and
\* only if its path count is lower than the group's maximum path count.
C4_UnderPathedMarked ==
    \A r \in 1..Len(reports) :
        LET rep == reports[r]
            maxpaths == MaxPaths(rep.encdevs)
        IN  /\ \A k \in 1..Len(rep.lines) :
                  HasMarker(rep.lines[k].paths) <=> Len(rep.lines[k].blkdevs) < maxpaths
            /\ \A t \in DOMAIN rep.flines :
                  HasMarker(rep.flines[t].paths) <=> t.paths < maxpaths

\* The non-orphan logical units processed so far.
ProcessedInGroups == {lu \in Range(Processed) : ~AllPathsLackEnclosure(lu)}

\* The paths of processed logical units that lack an enclosure reference.
ProcessedBarePaths ==
    {d \in 1..Len(nodes) :
        /\ nodes[d].enclosure = None
        /\ \E lu \in Range(Processed) : d \in Range(devmap[lu])}

\* C5: a logical unit is in orphans if and only if none of its paths has an
\* enclosure reference; such a unit never adds to or creates a group; and each
\* path lacking an enclosure reference gets exactly one warning, the paths of
\* non-orphan units included.
C5_OrphansAndWarnings ==
    /\ [k \in 1..Len(orphans) |-> orphans[k][1]] = SelectSeq(Processed, AllPathsLackEnclosure)
    /\ \A k \in 1..Len(orphans) : orphans[k][2] = devmap[orphans[k][1]]
    /\ \A d \in 1..Len(nodes) : Count(warnings, d) = IF d \in ProcessedBarePaths THEN 1 ELSE 0
    /\ \A a \in 1..Len(encgroups) : encgroups[a] # {}
    /\ Len(encgroups) <= Cardinality(ProcessedInGroups)
    /\ UNION Range(encgroups) =
           UNION {{nodes[d].enclosure : d \in Range(devmap[lu])} : lu \in ProcessedInGroups}
               \ {None}

\* C5 witness: the run ended with an orphan, a group, and a warning for a path
\* of a unit that is no orphan.
C5_Witness ==
    /\ pc = "done"
    /\ orphans # <<>>
    /\ encgroups # <<>>
    /\ \E lu \in ProcessedInGroups : \E d \in Range(devmap[lu]) : d \in Range(warnings)

\* Two logical units of a group report lie under the same folded entry.
SameEntry(rep, dl1, dl2) ==
    \E t \in DOMAIN rep.folded : dl1 \in Range(rep.folded[t]) /\ dl2 \in Range(rep.folded[t])

\* (vendor, model, revision, path count) of a logical unit.
ProfileOf(devlist) ==
    <<nodes[devlist[1]].vendor, nodes[devlist[1]].model, nodes[devlist[1]].rev, Len(devlist)>>

\* C6: in non-verbose mode two logical units of a group fall under the same
\* folded entry if and only if they have equal (vendor, model, revision, path
\* count); no other attribute of the representative path takes part.
C6_FoldedByProfile ==
    ~verbose =>
        \A r \in 1..Len(reports) :
            \A a, b \in 1..Len(reports[r].encdevs) :
                SameEntry(reports[r], reports[r].encdevs[a][2], reports[r].encdevs[b][2])
                    <=> ProfileOf(reports[r].encdevs[a][2]) = ProfileOf(reports[r].encdevs[b][2])

\* The member lists of a folded dict, one after the other.
RECURSIVE FoldedMembers(_)
FoldedMembers(folded) ==
    IF DOMAIN folded = {} THEN <<>>
    ELSE LET t == CHOOSE x \in DOMAIN folded : TRUE
         IN  folded[t] \o FoldedMembers([x \in DOMAIN folded \ {t} |-> folded[x]])

\* The sum of the counts printed on the folded lines.
RECURSIVE PrintedCounts(_)
PrintedCounts(flines) ==
    IF DOMAIN flines = {} THEN 0
    ELSE LET t == CHOOSE x \in DOMAIN flines : TRUE
         IN  flines[t].num + PrintedCounts([x \in DOMAIN flines \ {t} |-> flines[x]])

\* C7: in non-verbose mode the member lists of a group's folded entries hold
\* each logical unit of the group exactly once and nothing else, and the
\* printed counts sum to the printed group total, the number of its units.
C7_FoldingPartition ==
    ~verbose =>
        \A r \in 1..Len(reports) :
            LET rep == reports[r]
                members == FoldedMembers(rep.folded)
            IN  /\ \A k \in 1..Len(rep.encdevs) : Count(members, rep.encdevs[k][2]) = 1
                /\ Len(members) = Len(rep.encdevs)
                /\ PrintedCounts(rep.flines) = rep.total
                /\ rep.total = Len(rep.encdevs)

\* C7 witness: a folded report with two entries, one of them holding two units.
C7_Witness ==
    /\ pc = "done"
    /\ ~verbose
    /\ \E r \in 1..Len(reports) :
          /\ Cardinality(DOMAIN reports[r].folded) >= 2
          /\ \E t \in DOMAIN reports[r].folded : Len(reports[r].folded[t]) >= 2

\* The positions of devmap's lists that hold device k.
PlacesOf(k) == {<<lu, n>> \in (DOMAIN devmap) \X (1..Len(nodes)) : n <= Len(devmap[lu]) /\ devmap[lu][n] = k}

\* C8: every key of devmap maps to a non-empty list of devices that resolved
\* to that key, in discovery order, and each record collected so far is in
\* exactly one list exactly once (the records passed over are in none).
C8_DevMapWellFormed ==
    /\ \A lu \in DOMAIN devmap :
          /\ devmap[lu] # <<>>
          /\ \A n \in 1..Len(devmap[lu]) : ResolveLU(nodes[devmap[lu][n]]) = lu
          /\ \A m, n \in 1..Len(devmap[lu]) : m < n => devmap[lu][m] < devmap[lu][n]
    /\ \A k \in 1..Len(nodes) :
          Cardinality(PlacesOf(k)) = IF k < i /\ nodes[k].block THEN 1 ELSE 0

\* C8 witness: collection ended with two keys, one holding two paths, one
\* device resolved by sg_vpd and one device passed over for lack of a block device.
C8_Witness ==
    /\ pc = "done"
    /\ Cardinality(DOMAIN devmap) >= 2
    /\ \E lu \in DOMAIN devmap : Len(devmap[lu]) >= 2
    /\ \E k \in 1..Len(nodes) : nodes[k].block /\ nodes[k].pg83_lu = NoAttr
    /\ \E k \in 1..Len(nodes) : ~nodes[k].block

\* C10: every enclosure set of encgroups has a logical unit of devmap with a
\* path through one of its enclosures, so encdevs is never empty, max() never
\* raises, and maxpaths is at least 1.
C10_GroupsHaveMembers ==
    /\ err # "ValueError"
    /\ \A a \in 1..Len(encgroups) :
          /\ \E lu \in DOMAIN devmap : \E n \in 1..Len(devmap[lu]) :
                nodes[devmap[lu][n]].enclosure \in encgroups[a]
          /\ pc \in {"report", "done"} => FilterItems(encgroups[a], items) # <<>>
    /\ \A r \in 1..Len(reports) : reports[r].encdevs # <<>> /\ reports[r].maxpaths >= 1

\* C10 witness: two groups were reported, one with a dual-path unit.
C10_Witness ==
    /\ pc = "done"
    /\ Len(reports) >= 2
    /\ \E r \in 1..Len(reports) : reports[r].maxpaths >= 2

====
